---- MODULE Spec2Model ----
(***************************************************************************)
(* Rule-based lecture-note summariser (lecture-quiz-bot-local):            *)
(*   summary_rules.py     SummaryRuleEngine (segmenter, TF-IDF keywords,    *)
(*                        sentence ranking, summary records)                *)
(*   summary_io_utils.py  FileProcessor.chunk_text, SummaryMarkdownWriter   *)
(*   summary_gen.py       process_single_file, merge_summaries, main        *)
(*                                                                         *)
(* A character is a one-element name (a TLA+ string); a text, a sentence   *)
(* and a term are sequences of characters.  The two Hangul syllables of    *)
(* the stopword U+C774 U+B2E4 are written by their code point names.       *)
(* Scores are fixed-point numbers: a TF-IDF weight w is kept as the        *)
(* integer w * ScoreScale, idf values as idf * IdfScale.                   *)
(***************************************************************************)
EXTENDS Integers, Sequences, FiniteSets, TLC

VARIABLES
    pc,             \* position of the run: which operation has been applied
    args,           \* the inputs of the run (text, parameters, configuration)
    result,         \* what the last operation returned or raised
    file_index,     \* main: number of files of note_files already attempted
    success_count,  \* main: success_count
    outcomes,       \* main: per attempted file, how process_single_file ended
    exit_code       \* main: "running", 0 (normal return) or 1 (sys.exit(1))

vars == <<pc, args, result, file_index, success_count, outcomes, exit_code>>

(***************************************************************************)
(* Characters                                                              *)
(***************************************************************************)
Digits == {"0", "1", "2", "3", "4", "5", "6", "7", "8", "9"}
LowerLetters == {"a", "b", "d", "e", "h", "i", "k", "l", "m", "t", "x"}
UpperLetters == {"A", "M"}
HangulLetters == {"U+C774", "U+B2E4"}
Whitespace == {" ", "\n"}
SentenceEnd == {".", "!", "?"}

\* str.isalnum / str.isdigit on one character, and the regex classes \w, \s
IsAlnumChar(c) == c \in Digits \cup LowerLetters \cup UpperLetters \cup HangulLetters
IsDigitChar(c) == c \in Digits
IsWordChar(c) == IsAlnumChar(c) \/ c = "_"
IsSpaceChar(c) == c \in Whitespace

\* Unicode code point of a character (Python compares strings by code point)
CodePoint(c) ==
    CASE c = "\n" -> 10 [] c = " " -> 32 [] c = "!" -> 33 [] c = "." -> 46
      [] c = "0" -> 48 [] c = "1" -> 49 [] c = "2" -> 50 [] c = "3" -> 51
      [] c = "4" -> 52 [] c = "5" -> 53 [] c = "6" -> 54 [] c = "7" -> 55
      [] c = "8" -> 56 [] c = "9" -> 57 [] c = "?" -> 63
      [] c = "A" -> 65 [] c = "M" -> 77 [] c = "_" -> 95
      [] c = "a" -> 97 [] c = "b" -> 98 [] c = "d" -> 100 [] c = "e" -> 101
      [] c = "h" -> 104 [] c = "i" -> 105 [] c = "k" -> 107 [] c = "l" -> 108
      [] c = "m" -> 109 [] c = "t" -> 116 [] c = "x" -> 120
      [] c = "U+B2E4" -> 45796 [] c = "U+C774" -> 51060

\* str.lower on one character
LowerChar(c) == CASE c = "A" -> "a" [] c = "M" -> "m" [] OTHER -> c

(***************************************************************************)
(* Strings as sequences.  Operators over a whole text are written without  *)
(* recursion on its length, so that long texts can be evaluated.           *)
(***************************************************************************)
\* Body(value): the value is computed once and then named, as an assignment
\* to a local variable does
Bind(value, Body(_)) == CHOOSE r \in {Body(v) : v \in {value}} : TRUE

\* a function computed once for all its arguments, then looked up
Tabulated(f) == CHOOSE g \in {f} : g = g

Min(S) == CHOOSE x \in S : \A y \in S : x <= y
Max(S) == CHOOSE x \in S : \A y \in S : y <= x

\* seq[:n] for n >= 0
Prefix(seq, n) == SubSeq(seq, 1, IF n < Len(seq) THEN n ELSE Len(seq))

\* seq[a:b] for 0 <= a <= b
Slice(seq, a, b) == SubSeq(seq, a + 1, IF b < Len(seq) THEN b ELSE Len(seq))

Range(seq) == {seq[i] : i \in 1..Len(seq)}

\* number of occurrences of x in seq
Count(x, seq) == Cardinality({i \in 1..Len(seq) : seq[i] = x})

\* sep.join(parts), by halves
RECURSIVE Join(_, _)
Join(sep, parts) ==
    IF parts = <<>> THEN <<>>
    ELSE IF Len(parts) = 1 THEN parts[1]
    ELSE Join(sep, SubSeq(parts, 1, Len(parts) \div 2)) \o sep
           \o Join(sep, SubSeq(parts, Len(parts) \div 2 + 1, Len(parts)))

\* sum(seq), by halves
RECURSIVE SumSeq(_)
SumSeq(seq) ==
    IF seq = <<>> THEN 0
    ELSE IF Len(seq) = 1 THEN seq[1]
    ELSE SumSeq(SubSeq(seq, 1, Len(seq) \div 2))
           + SumSeq(SubSeq(seq, Len(seq) \div 2 + 1, Len(seq)))

\* str.strip()
Strip(s) ==
    Bind({i \in 1..Len(s) : ~IsSpaceChar(s[i])},
         LAMBDA solid : IF solid = {} THEN <<>> ELSE SubSeq(s, Min(solid), Max(solid)))

Lower(s) == [i \in 1..Len(s) |-> LowerChar(s[i])]

\* s < t for Python strings (lexicographic by code point)
RECURSIVE StrLess(_, _)
StrLess(s, t) ==
    IF t = <<>> THEN FALSE
    ELSE IF s = <<>> THEN TRUE
    ELSE IF Head(s) = Head(t) THEN StrLess(Tail(s), Tail(t))
    ELSE CodePoint(Head(s)) < CodePoint(Head(t))

\* the elements of a set of numbers in increasing order
SortedNats(S) ==
    [k \in 1..Cardinality(S) |-> CHOOSE x \in S : Cardinality({y \in S : y < x}) = k - 1]

\* the maximal runs of the positions in `inside`, left to right, as the
\* substrings of text they cover
Runs(text, inside) ==
    Bind(SortedNats({i \in inside : (i - 1) \notin inside}),
         LAMBDA starts :
            [k \in 1..Len(starts) |->
                SubSeq(text, starts[k],
                       Min({j \in starts[k]..Len(text) : (j + 1) \notin inside}))])

(***************************************************************************)
(* re.split on the two sentence patterns                                   *)
(*   [.!?]+\s*|\n+   (split_sentences, newline_alt = TRUE)                 *)
(*   [.!?]+\s*       (_split_into_sentences, newline_alt = FALSE)          *)
(* A position is inside a match when it holds a sentence end, or (first    *)
(* pattern) a newline, or whitespace that follows a sentence end with only *)
(* whitespace between.  ReSplit gives the non-empty pieces between the     *)
(* matches; the empty pieces re.split also returns are dropped by both     *)
(* callers (if s.strip()).                                                 *)
(***************************************************************************)
InMatch(text, i, newline_alt) ==
    \/ text[i] \in SentenceEnd
    \/ newline_alt /\ text[i] = "\n"
    \/ /\ IsSpaceChar(text[i])
       /\ \E j \in 1..(i - 1) :
             /\ text[j] \in SentenceEnd
             /\ \A k \in (j + 1)..(i - 1) : IsSpaceChar(text[k])

ReSplit(text, newline_alt) ==
    Runs(text, {i \in 1..Len(text) : ~InMatch(text, i, newline_alt)})

\* [s.strip() for s in pieces if s.strip()]
StripNonEmpty(pieces) ==
    SelectSeq([i \in 1..Len(pieces) |-> Strip(pieces[i])], LAMBDA s : s # <<>>)

split_sentences(text) == StripNonEmpty(ReSplit(text, TRUE))

_split_into_sentences(text) == StripNonEmpty(ReSplit(text, FALSE))

(***************************************************************************)
(* SummaryRuleEngine.__init__: stopwords and the TfidfVectorizer           *)
(*   ngram_range=(1, 2), token_pattern=r'\b\w+\b', lowercase=True,         *)
(*   smooth_idf, sublinear_tf=False, norm='l2' (the library defaults).     *)
(* max_features = 1000 never bites here: the largest vocabulary of the     *)
(* texts below has 101 entries.                                            *)
(***************************************************************************)
StopwordsKo == {
    <<"U+AC00">>, <<"U+AC83">>, <<"U+ACFC">>, <<"U+ADF8">>, <<"U+B294">>,
    <<"U+B2E4">>, <<"U+B3C4">>, <<"U+B418">>, <<"U+B85C">>, <<"U+B97C">>,
    <<"U+C218">>, <<"U+C5D0">>, <<"U+C640">>, <<"U+C740">>, <<"U+C744">>,
    <<"U+C758">>, <<"U+C774">>, <<"U+C788">>, <<"U+C800">>, <<"U+D558">>,
    <<"U+B418", "U+B2E4">>, <<"U+C5D0", "U+C11C">>, <<"U+C73C", "U+B85C">>,
    <<"U+C774", "U+B2E4">>, <<"U+C788", "U+B2E4">>, <<"U+D558", "U+B2E4">> }

StopwordsEn == {
    <<"t", "h", "e">>, <<"a">>, <<"a", "n">>, <<"a", "n", "d">>, <<"o", "r">>,
    <<"b", "u", "t">>, <<"i", "n">>, <<"o", "n">>, <<"a", "t">>, <<"t", "o">>,
    <<"f", "o", "r">>, <<"o", "f">>, <<"w", "i", "t", "h">>, <<"b", "y">>,
    <<"i", "s">>, <<"a", "r", "e">>, <<"w", "a", "s">>,
    <<"w", "e", "r", "e">>, <<"b", "e">>, <<"b", "e", "e", "n">>,
    <<"h", "a", "v", "e">>, <<"h", "a", "s">>, <<"h", "a", "d">>,
    <<"d", "o">>, <<"d", "o", "e", "s">>, <<"d", "i", "d">>,
    <<"w", "i", "l", "l">>, <<"w", "o", "u", "l", "d">>,
    <<"c", "o", "u", "l", "d">>, <<"s", "h", "o", "u", "l", "d">>,
    <<"m", "a", "y">>, <<"m", "i", "g", "h", "t">>, <<"c", "a", "n">>,
    <<"t", "h", "i", "s">>, <<"t", "h", "a", "t">>,
    <<"t", "h", "e", "s", "e">>, <<"t", "h", "o", "s", "e">>, <<"i">>,
    <<"y", "o", "u">>, <<"h", "e">>, <<"s", "h", "e">>, <<"i", "t">>,
    <<"w", "e">>, <<"t", "h", "e", "y">> }

\* self.stopwords.get(lang, set())
stopwords(lang) ==
    CASE lang = "ko" -> StopwordsKo [] lang = "en" -> StopwordsEn [] OTHER -> {}

\* re.findall(r'\b\w+\b', doc): the maximal runs of word characters
FindWords(doc) == Runs(doc, {i \in 1..Len(doc) : IsWordChar(doc[i])})

\* the vectorizer's analyzer: lowercase, tokenize, unigrams then bigrams
Analyze(doc) ==
    Bind(FindWords(Lower(doc)),
         LAMBDA tokens :
            tokens \o [i \in 1..(Len(tokens) - 1) |->
                          tokens[i] \o <<" ">> \o tokens[i + 1]])

\* sorted(S) for a set of strings
SortedStrings(S) ==
    Bind([x \in S |-> Cardinality({y \in S : StrLess(y, x)})],
         LAMBDA rank : [k \in 1..Cardinality(S) |-> CHOOSE x \in S : rank[x] = k - 1])

\* floor of the square root, by bisection on lo <= r < hi
RECURSIVE Bisect(_, _, _)
Bisect(n, lo, hi) ==
    IF hi - lo <= 1 THEN lo
    ELSE LET mid == (lo + hi) \div 2
         IN  IF mid * mid <= n THEN Bisect(n, mid, hi) ELSE Bisect(n, lo, mid)

ISqrt(n) == Bisect(n, 0, 46341)

IdfScale == 1000
ScoreScale == 10000

\* IdfTable[n][df] = round(IdfScale * (ln((1 + n) / (1 + df)) + 1))
IdfTable == <<
    <<1000>>,
    <<1405, 1000>>,
    <<1693, 1288, 1000>>,
    <<1916, 1511, 1223, 1000>>,
    <<2099, 1693, 1405, 1182, 1000>>,
    <<2253, 1847, 1560, 1336, 1154, 1000>>,
    <<2386, 1981, 1693, 1470, 1288, 1134, 1000>>,
    <<2504, 2099, 1811, 1588, 1405, 1251, 1118, 1000>> >>

\* one row of the matrix: tf * idf per feature, then divided by its L2 norm
TfidfRow(doc_grams, names, idf) ==
    Bind([j \in 1..Len(names) |-> Count(names[j], doc_grams) * idf[j]],
         LAMBDA raw :
            Bind(ISqrt(SumSeq([j \in 1..Len(raw) |-> raw[j] * raw[j]])),
                 LAMBDA norm :
                    [j \in 1..Len(raw) |->
                        IF norm = 0 THEN 0 ELSE (raw[j] * ScoreScale) \div norm]))

\* TfidfVectorizer.fit_transform(docs): raises ValueError on an empty
\* vocabulary (no document has a token, or there is no document); otherwise
\* the sorted feature names and the L2-normalised tf * idf matrix, one row per
\* document and one column per feature.  max_features=1000 keeps every
\* feature of the texts used here (the longest has 101).
fit_transform(docs) ==
    Bind([d \in 1..Len(docs) |-> Analyze(docs[d])],
         LAMBDA grams :
            Bind(SortedStrings(UNION {Range(grams[d]) : d \in 1..Len(grams)}),
                 LAMBDA names :
                    Bind([j \in 1..Len(names) |->
                             IdfTable[Len(grams)][Cardinality(
                                 {d \in 1..Len(grams) : names[j] \in Range(grams[d])})]],
                         LAMBDA idf :
                            IF names = <<>>
                            THEN [raised |-> "ValueError"]
                            ELSE [raised |-> "none",
                                  feature_names |-> names,
                                  matrix |-> [d \in 1..Len(grams) |->
                                                 TfidfRow(grams[d], names, idf)]])))

\* list.sort(key=lambda x: x[1], reverse=True): stable, descending by score.
\* An element moves to the position that counts the elements with a higher
\* score and the earlier elements with the same score.
SortByScoreDesc(pairs) ==
    Bind([i \in 1..Len(pairs) |->
             1 + Cardinality({j \in 1..Len(pairs) :
                                 \/ pairs[j][2] > pairs[i][2]
                                 \/ pairs[j][2] = pairs[i][2] /\ j < i})],
         LAMBDA position :
            [k \in 1..Len(pairs) |-> pairs[CHOOSE i \in 1..Len(pairs) : position[i] = k]])

\* str.isdigit(), str.isalnum() (both False on the empty string)
IsDigitStr(s) == s # <<>> /\ \A i \in 1..Len(s) : IsDigitChar(s[i])
IsAlnumStr(s) == s # <<>> /\ \A i \in 1..Len(s) : IsAlnumChar(s[i])

\* the filter without its isalnum() condition
KeepKeyword_without_isalnum(keyword, lang) ==
    /\ Len(keyword) >= 2
    /\ keyword \notin stopwords(lang)
    /\ ~IsDigitStr(keyword)

\* the filter of extract_keywords
KeepKeyword(keyword, lang) ==
    /\ Len(keyword) >= 2
    /\ keyword \notin stopwords(lang)
    /\ ~IsDigitStr(keyword)
    /\ IsAlnumStr(keyword)

\* keyword_scores after the sort: (feature name, mean of its column)
keyword_scores(fitted) ==
    LET names == fitted.feature_names
        n == Len(fitted.matrix)
        mean(j) == SumSeq([d \in 1..n |-> fitted.matrix[d][j]]) \div n
    IN  Bind([j \in 1..Len(names) |-> <<names[j], mean(j)>>],
             LAMBDA pairs : SortByScoreDesc(pairs))

\* extract_keywords with a check of the number of sentences in front
extract_keywords_two_sentences(text, lang, top_k) ==
    IF Len(split_sentences(text)) < 2 THEN <<>>
    ELSE Bind(fit_transform(split_sentences(text)),
              LAMBDA fitted :
                 IF fitted.raised # "none" THEN <<>>
                 ELSE Prefix(SelectSeq(keyword_scores(fitted),
                                       LAMBDA p : KeepKeyword(p[1], lang)), top_k))

\* SummaryRuleEngine.extract_keywords(text, lang, top_k), top_k >= 0
extract_keywords(text, lang, top_k) ==
    Bind(fit_transform(split_sentences(text)),
         LAMBDA fitted :
            IF fitted.raised # "none" THEN <<>>
            ELSE Prefix(SelectSeq(keyword_scores(fitted),
                                  LAMBDA p : KeepKeyword(p[1], lang)), top_k))

\* SummaryRuleEngine.extract_important_sentences(text, num_sentences),
\* num_sentences >= 0: (sentence, row sum) pairs, best first
extract_important_sentences(text, num_sentences) ==
    Bind(split_sentences(text),
         LAMBDA sentences :
            Bind(fit_transform(sentences),
                 LAMBDA fitted :
                    IF sentences = <<>> THEN <<>>
                    ELSE IF fitted.raised # "none" THEN <<>>
                    ELSE Prefix(SortByScoreDesc([d \in 1..Len(sentences) |->
                                    <<sentences[d], SumSeq(fitted.matrix[d])>>]),
                                num_sentences)))

NoSentencesMessage ==
    <<"U+C911", "U+C694", "U+D55C", " ", "U+BB38", "U+C7A5", "U+C744", " ",
      "U+CD94", "U+CD9C", "U+D560", " ", "U+C218", " ", "U+C5C6", "U+C2B5",
      "U+B2C8", "U+B2E4", ".">>

NoKeywordsMessage ==
    <<"U+D0A4", "U+C6CC", "U+B4DC", "U+B97C", " ", "U+CD94", "U+CD9C", "U+D560",
      " ", "U+C218", " ", "U+C5C6", "U+C2B5", "U+B2C8", "U+B2E4", ".">>

CoreKeywordsLabel ==
    <<"*", "*", "U+D575", "U+C2EC", " ", "U+D0A4", "U+C6CC", "U+B4DC", "*", "*", ":", " ">>

MainKeywordsLabel ==
    <<"*", "*", "U+C8FC", "U+C694", " ", "U+D0A4", "U+C6CC", "U+B4DC", "*", "*", ":", " ">>

\* [kw for kw, score in pairs]
Terms(pairs) == [i \in 1..Len(pairs) |-> pairs[i][1]]

\* SummaryRuleEngine.create_keyword_summary(keywords, max_keywords)
create_keyword_summary(keywords, max_keywords) ==
    Bind(Prefix(keywords, max_keywords),
         LAMBDA top_keywords :
            LET core == CoreKeywordsLabel
                          \o Join(<<",", " ">>, Terms(Prefix(top_keywords, 5)))
                main == MainKeywordsLabel
                          \o Join(<<",", " ">>, Terms(Slice(top_keywords, 5, 15)))
            IN  IF keywords = <<>> THEN NoKeywordsMessage
                ELSE IF Len(top_keywords) > 5 THEN Join(<<"\n", "\n">>, <<core, main>>)
                ELSE core)

\* the list that create_sentence_summary joins: the important sentences, in
\* the order extract_important_sentences returned them, that occur in
\* split_sentences(text)
SelectInSentences(important_sentences, sentences) ==
    SelectSeq(Terms(important_sentences), LAMBDA sentence : sentence \in Range(sentences))

summary_sentences(text, num_sentences) ==
    Bind(extract_important_sentences(text, num_sentences),
         LAMBDA important_sentences :
            Bind(split_sentences(text),
                 LAMBDA sentences : SelectInSentences(important_sentences, sentences)))

\* SummaryRuleEngine.create_sentence_summary(text, num_sentences)
create_sentence_summary(text, num_sentences) ==
    Bind(extract_important_sentences(text, num_sentences),
         LAMBDA important_sentences :
            IF important_sentences = <<>>
            THEN NoSentencesMessage
            ELSE Bind(split_sentences(text),
                      LAMBDA sentences :
                         Join(<<" ">>, SelectInSentences(important_sentences, sentences))))

\* len(text.split()): the maximal runs of non-whitespace characters
WordCount(text) == Len(Runs(text, {i \in 1..Len(text) : ~IsSpaceChar(text[i])}))

\* SummaryRuleEngine.create_structured_summary(text, keywords).  The
\* compression ratio f"{len(sentence_summary) / len(text) * 100:.1f}%" is kept
\* as the pair of lengths it divides; the division raises on an empty text.
create_structured_summary(text, keywords) ==
    Bind(create_sentence_summary(text, 5),
         LAMBDA sentence_summary :
            IF Len(text) = 0
            THEN [raised |-> "ZeroDivisionError"]
            ELSE [raised |-> "none",
                  value |->
                     [sentence_summary |-> sentence_summary,
                      keyword_summary |-> create_keyword_summary(keywords, 20),
                      core_concepts |-> Terms(Prefix(keywords, 10)),
                      statistics |->
                         [sentence_count |-> Len(split_sentences(text)),
                          word_count |-> WordCount(text),
                          char_count |-> Len(text),
                          summary_sentence_count |-> Count(".", sentence_summary) + 1,
                          compression_ratio |-> <<Len(sentence_summary), Len(text)>>]]])

\* the topics dict of create_topic_summary, in insertion order
Topics == <<
    [name |-> <<"U+AC1C", "U+B150", "/", "U+C815", "U+C758">>,
     markers |-> {<<"U+C815", "U+C758">>, <<"U+AC1C", "U+B150">>,
                  <<"U+C758", "U+BBF8">>, <<"U+C774", "U+D574">>}],
    [name |-> <<"U+D2B9", "U+C9D5", "/", "U+C7A5", "U+C810">>,
     markers |-> {<<"U+D2B9", "U+C9D5">>, <<"U+C7A5", "U+C810">>,
                  <<"U+D6A8", "U+ACFC">>, <<"U+C131", "U+B2A5">>}],
    [name |-> <<"U+C751", "U+C6A9", "/", "U+C0AC", "U+C6A9">>,
     markers |-> {<<"U+C751", "U+C6A9">>, <<"U+C0AC", "U+C6A9">>,
                  <<"U+D65C", "U+C6A9">>, <<"U+C801", "U+C6A9">>}],
    [name |-> <<"U+AE30", "U+C220", "/", "U+BC29", "U+BC95">>,
     markers |-> {<<"U+AE30", "U+C220">>, <<"U+BC29", "U+BC95">>,
                  <<"U+C54C", "U+ACE0", "U+B9AC", "U+C998">>, <<"U+AE30", "U+BC95">>}],
    [name |-> <<"U+AE30", "U+D0C0">>,
     markers |-> {}] >>

\* word in keyword (substring test)
Contains(keyword, word) ==
    \E i \in 1..(Len(keyword) - Len(word) + 1) :
        SubSeq(keyword, i, i + Len(word) - 1) = word

\* the if/elif chain with its branches tried from the last to the first
TopicOf_last_branch_first(keyword) ==
    IF \E k \in 1..4 : \E word \in Topics[k].markers : Contains(Lower(keyword), word)
    THEN CHOOSE k \in 1..4 :
            /\ \E word \in Topics[k].markers : Contains(Lower(keyword), word)
            /\ \A h \in (k + 1)..4 :
                  ~\E word \in Topics[h].markers : Contains(Lower(keyword), word)
    ELSE 5

\* index in Topics of the branch of the if/elif chain that takes the keyword
TopicOf(keyword) ==
    IF \E k \in 1..4 : \E word \in Topics[k].markers : Contains(Lower(keyword), word)
    THEN CHOOSE k \in 1..4 :
            /\ \E word \in Topics[k].markers : Contains(Lower(keyword), word)
            /\ \A h \in 1..(k - 1) :
                  ~\E word \in Topics[h].markers : Contains(Lower(keyword), word)
    ELSE 5

\* the lists of the topics dict after the loop over keywords[:20]
topics(keywords) ==
    Bind(Terms(Prefix(keywords, 20)),
         LAMBDA considered :
            [k \in 1..5 |-> SelectSeq(considered, LAMBDA keyword : TopicOf(keyword) = k)])

\* SummaryRuleEngine.create_topic_summary(text, keywords)
create_topic_summary(text, keywords) ==
    Bind(topics(keywords),
         LAMBDA keywords_list :
            LET line(k) == <<"*", "*">> \o Topics[k].name \o <<"*", "*", ":", " ">>
                             \o Join(<<",", " ">>, Prefix(keywords_list[k], 5))
                shown == SelectSeq(<<1, 2, 3, 4, 5>>,
                                   LAMBDA k : keywords_list[k] # <<>>)
            IN  Join(<<"\n", "\n">>, [i \in 1..Len(shown) |-> line(shown[i])]))

\* the record generate_comprehensive_summary builds from the text's keywords
ComprehensiveSummary(text, summary_type, keywords) ==
    IF summary_type = "keywords"
    THEN [raised |-> "none",
          value |-> [type |-> "keywords",
                     content |-> create_keyword_summary(keywords, 20),
                     keywords |-> Prefix(keywords, 20),
                     core_concepts |-> Terms(Prefix(keywords, 15))]]
    ELSE IF summary_type = "sentences"
    THEN [raised |-> "none",
          value |-> [type |-> "sentences",
                     content |-> create_sentence_summary(text, 5),
                     keywords |-> Prefix(keywords, 20),
                     core_concepts |-> Terms(Prefix(keywords, 15))]]
    ELSE Bind(create_structured_summary(text, keywords),
              LAMBDA structured :
                 IF structured.raised # "none"
                 THEN [raised |-> structured.raised]
                 ELSE [raised |-> "none",
                       value |-> [type |-> "mixed",
                                  sentence_summary |-> structured.value.sentence_summary,
                                  keyword_summary |-> structured.value.keyword_summary,
                                  topic_summary |-> create_topic_summary(text, keywords),
                                  core_concepts |-> structured.value.core_concepts,
                                  statistics |-> structured.value.statistics,
                                  keywords |-> Prefix(keywords, 20)]])

\* SummaryRuleEngine.generate_comprehensive_summary(text, summary_type):
\* the record it returns, or the exception that escapes it
generate_comprehensive_summary(text, summary_type) ==
    Bind(extract_keywords(text, "ko", 50),
         LAMBDA keywords : ComprehensiveSummary(text, summary_type, keywords))

(***************************************************************************)
(* FileProcessor (summary_io_utils.py)                                     *)
(***************************************************************************)
\* text.split('\n\n')
RECURSIVE SplitParagraphs(_)
SplitParagraphs(text) ==
    Bind({i \in 1..(Len(text) - 1) : text[i] = "\n" /\ text[i + 1] = "\n"},
         LAMBDA breaks :
            IF breaks = {} THEN <<text>>
            ELSE <<SubSeq(text, 1, Min(breaks) - 1)>>
                   \o SplitParagraphs(SubSeq(text, Min(breaks) + 2, Len(text))))

\* the units chunk_text adds one by one, each with the separator it is added
\* with: a paragraph, or the sentences of a paragraph longer than
\* max_chunk_size
RECURSIVE ChunkUnits(_, _)
ChunkUnits(paragraphs, max_chunk_size) ==
    IF paragraphs = <<>> THEN <<>>
    ELSE (IF Len(Head(paragraphs)) > max_chunk_size
          THEN Bind(_split_into_sentences(Head(paragraphs)),
                    LAMBDA sentences :
                       [i \in 1..Len(sentences) |->
                           [text |-> sentences[i], sep |-> <<" ">>]])
          ELSE <<[text |-> Head(paragraphs), sep |-> <<"\n", "\n">>]>>)
         \o ChunkUnits(Tail(paragraphs), max_chunk_size)

\* one turn of either loop of chunk_text.  st.chunks holds, per chunk, its
\* text and the number of units it was built from; st.units counts the units
\* in current_chunk.
AddUnit(st, unit, max_chunk_size, min_chunk_size) ==
    IF /\ Len(st.current_chunk) + Len(unit.text) > max_chunk_size
       /\ Len(st.current_chunk) >= min_chunk_size
    THEN [chunks |-> Append(st.chunks,
                            [text |-> Strip(st.current_chunk), units |-> st.units]),
          current_chunk |-> unit.text,
          units |-> 1]
    ELSE [chunks |-> st.chunks,
          current_chunk |-> st.current_chunk \o unit.sep \o unit.text,
          units |-> st.units + 1]

RECURSIVE AddUnits(_, _, _, _)
AddUnits(st, units, max_chunk_size, min_chunk_size) ==
    IF units = <<>> THEN st
    ELSE AddUnits(AddUnit(st, Head(units), max_chunk_size, min_chunk_size),
                  Tail(units), max_chunk_size, min_chunk_size)

\* FileProcessor.chunk_text with, per chunk, the number of units in it
ChunkTextUnits(text, max_chunk_size, min_chunk_size) ==
    IF Len(text) <= max_chunk_size
    THEN <<[text |-> text, units |-> 1]>>
    ELSE Bind(AddUnits([chunks |-> <<>>, current_chunk |-> <<>>, units |-> 0],
                       ChunkUnits(SplitParagraphs(text), max_chunk_size),
                       max_chunk_size, min_chunk_size),
              LAMBDA st :
                 IF Strip(st.current_chunk) # <<>>
                 THEN Append(st.chunks,
                             [text |-> Strip(st.current_chunk), units |-> st.units])
                 ELSE st.chunks)

\* FileProcessor.chunk_text(text) of FileProcessor(max_chunk_size, min_chunk_size)
chunk_text(text, max_chunk_size, min_chunk_size) ==
    Bind(ChunkTextUnits(text, max_chunk_size, min_chunk_size),
         LAMBDA made : [i \in 1..Len(made) |-> made[i].text])

\* FileProcessor.preprocess_text(text) on texts of letters, sentence ends,
\* whitespace and '#': runs of whitespace become one space, then a run of
\* '#' goes with the whitespace after it, then the text is stripped.  The
\* three other substitutions need '*', '`' or '[', which these texts lack.
preprocess_text(text) ==
    Bind([i \in 1..Len(text) |-> IF IsSpaceChar(text[i]) THEN " " ELSE text[i]],
         LAMBDA spaced :
            Bind(SelectSeq([i \in 1..Len(spaced) |-> i],
                           LAMBDA i : spaced[i] # " " \/ i = 1 \/ spaced[i - 1] # " "),
                 LAMBDA kept :
                    Bind([k \in 1..Len(kept) |-> spaced[kept[k]]],
                         LAMBDA collapsed :
                            Strip([k \in 1..Len(SelectSeq([i \in 1..Len(collapsed) |-> i],
                                        LAMBDA i : /\ collapsed[i] # "#"
                                                   /\ ~(/\ collapsed[i] = " "
                                                         /\ i > 1
                                                         /\ collapsed[i - 1] = "#"))) |->
                                     collapsed[SelectSeq([i \in 1..Len(collapsed) |-> i],
                                        LAMBDA i : /\ collapsed[i] # "#"
                                                   /\ ~(/\ collapsed[i] = " "
                                                         /\ i > 1
                                                         /\ collapsed[i - 1] = "#"))[k]]]))))

\* the chunks process_single_file loops over for the text it has read, with
\* FileProcessor(max_chunk_size=args.chunk_size, min_chunk_size)
document_chunks(raw, chunk_size, min_chunk_size) ==
    Bind(preprocess_text(raw),
         LAMBDA text :
            [text |-> text,
             chunks |-> IF Len(text) > chunk_size
                        THEN chunk_text(text, chunk_size, min_chunk_size)
                        ELSE <<text>>])

(***************************************************************************)
(* SummaryMarkdownWriter.write_summary_file (summary_io_utils.py)          *)
(***************************************************************************)
\* the keys of summary_data that write_summary_file subscripts, in the order
\* it reaches them ('statistics' is read only behind "'statistics' in")
FieldsRead(summary_data) ==
    (IF summary_data.type \in {"keywords", "sentences"}
     THEN <<"content">>
     ELSE <<"sentence_summary", "keyword_summary", "topic_summary">>)
    \o <<"core_concepts", "keywords">>

\* write_summary_file(filename, summary_data): the file is opened, then the
\* sections are written until a key is missing (KeyError)
write_summary_file(summary_data) ==
    Bind(SelectSeq(FieldsRead(summary_data), LAMBDA f : f \notin DOMAIN summary_data),
         LAMBDA missing :
            IF missing # <<>>
            THEN [raised |-> "KeyError", key |-> missing[1]]
            ELSE [raised |-> "none", output_path |-> "summary.md",
                  statistics_written |->
                      (summary_data.type = "mixed" /\ "statistics" \in DOMAIN summary_data)])

(***************************************************************************)
(* merge_summaries and process_single_file (summary_gen.py)                *)
(***************************************************************************)
\* list({kw: score for kw, score in all_keywords}.items()): one item per
\* term, at the place of the term's first occurrence, with the score of its
\* last occurrence
DictItems(all_keywords) ==
    Bind(SelectSeq([i \in 1..Len(all_keywords) |-> i],
                   LAMBDA i : \A j \in 1..(i - 1) : all_keywords[j][1] # all_keywords[i][1]),
         LAMBDA firsts :
            [k \in 1..Len(firsts) |->
                <<all_keywords[firsts[k]][1],
                  all_keywords[Max({j \in 1..Len(all_keywords) :
                      all_keywords[j][1] = all_keywords[firsts[k]][1]})][2]>>])

\* de-duplication that keeps a term's first score instead of its last
unique_keywords_first_score(all_keywords) ==
    Bind(SelectSeq([i \in 1..Len(all_keywords) |-> i],
                   LAMBDA i : \A j \in 1..(i - 1) : all_keywords[j][1] # all_keywords[i][1]),
         LAMBDA firsts :
            SortByScoreDesc([k \in 1..Len(firsts) |-> all_keywords[firsts[k]]]))

\* unique_keywords: the de-duplicated keywords, sorted by score
unique_keywords(all_keywords) ==
    Bind(DictItems(all_keywords), LAMBDA items : SortByScoreDesc(items))

\* all_keywords.extend(summary.get('keywords', [])) over the summaries
RECURSIVE SummaryKeywords(_)
SummaryKeywords(summaries) ==
    IF summaries = <<>> THEN <<>>
    ELSE (IF "keywords" \in DOMAIN Head(summaries) THEN Head(summaries).keywords ELSE <<>>)
         \o SummaryKeywords(Tail(summaries))

\* the values of one key over the summaries that have it
FieldValues(summaries, key) ==
    Bind(SelectSeq(summaries, LAMBDA summary : key \in DOMAIN summary),
         LAMBDA having : [i \in 1..Len(having) |-> having[i][key]])

\* merge_summaries(summaries, summary_type)
merge_summaries(summaries, summary_type) ==
    Bind(unique_keywords(SummaryKeywords(summaries)),
         LAMBDA unique :
            IF summary_type = "keywords"
            THEN [type |-> "keywords",
                  content |-> CoreKeywordsLabel
                                \o Join(<<",", " ">>, Terms(Prefix(unique, 10)))
                                \o <<"\n", "\n">> \o MainKeywordsLabel
                                \o Join(<<",", " ">>, Terms(Slice(unique, 10, 20))),
                  keywords |-> Prefix(unique, 20)]
            ELSE IF summary_type = "sentences"
            THEN [type |-> "sentences",
                  content |-> Join(<<" ">>, SelectSeq(FieldValues(summaries, "content"),
                                                      LAMBDA content : content # <<>>)),
                  keywords |-> IF summaries # <<>> /\ "keywords" \in DOMAIN summaries[1]
                               THEN summaries[1].keywords ELSE <<>>]
            ELSE [type |-> "mixed",
                  sentence_summary |-> Join(<<" ">>, FieldValues(summaries, "sentence_summary")),
                  keyword_summary |-> CoreKeywordsLabel
                                        \o Join(<<",", " ">>, Terms(Prefix(unique, 10))),
                  core_concepts |-> Terms(Prefix(unique, 15)),
                  keywords |-> Prefix(unique, 20)])

\* d[key] = value on a dict
SetItem(d, key, value) ==
    [k \in DOMAIN d \cup {key} |-> IF k = key THEN value ELSE d[k]]

\* the turn of the loop without its "if not keywords: continue"
ProcessChunk_without_continue(acc, keywords, summary_data) ==
    IF acc.raised # "none" THEN acc
    ELSE IF summary_data.raised # "none"
    THEN [acc EXCEPT !.all_keywords = acc.all_keywords \o keywords,
                     !.raised = summary_data.raised]
    ELSE [acc EXCEPT !.all_keywords = acc.all_keywords \o keywords,
                     !.all_summaries = Append(acc.all_summaries, summary_data.value)]

\* one turn of the loop over the chunks.  keywords is
\* extract_keywords(chunk, args.lang, args.max_keywords), summary_data is
\* generate_comprehensive_summary(chunk, args.type), called only when
\* keywords is not empty; an exception of the latter ends the loop.
ProcessChunk(acc, keywords, summary_data) ==
    IF acc.raised # "none" THEN acc
    ELSE IF keywords = <<>> THEN acc
    ELSE IF summary_data.raised # "none"
    THEN [acc EXCEPT !.all_keywords = acc.all_keywords \o keywords,
                     !.raised = summary_data.raised]
    ELSE [acc EXCEPT !.all_keywords = acc.all_keywords \o keywords,
                     !.all_summaries = Append(acc.all_summaries, summary_data.value)]

\* what process_single_file does once the loop has left some summaries
FinishFile(all_keywords, all_summaries, summary_type) ==
    Bind(unique_keywords(all_keywords),
         LAMBDA unique :
            Bind(IF Len(all_summaries) = 1 THEN <<>>
                 ELSE <<merge_summaries(all_summaries, summary_type)>>,
                 LAMBDA merged :
                    Bind(SetItem(IF merged = <<>> THEN all_summaries[1] ELSE merged[1],
                                 "keywords", Prefix(unique, 50)),
                         LAMBDA final_summary :
                            Bind(write_summary_file(final_summary),
                                 LAMBDA written :
                                    [raised |-> written.raised,
                                     returned |-> IF written.raised = "none"
                                                  THEN "output_path" ELSE "nothing",
                                     all_keywords |-> all_keywords,
                                     all_summaries |-> all_summaries,
                                     unique_keywords |-> unique,
                                     merged |-> merged,
                                     final_summary |-> <<final_summary>>,
                                     written |-> <<written>>]))))

(***************************************************************************)
(* Bounded inputs                                                          *)
(***************************************************************************)
SeqsUpTo(S, n) == UNION {[1..k -> S] : k \in 0..n}

\* a text is its pieces (words, sentence ends, newlines) joined by one space
TextOf(pieces) == Join(<<" ">>, pieces)

MaxKeywordPieces == 3
MaxTopK == 2
MaxSummaryPieces == 4
MaxNumSentences == 2

\* words that meet each branch of the keyword filter: two plain words (one
\* with capitals), an English and a Korean stopword, a number, a word with an
\* underscore, a one-letter word; and the sentence end
KeywordPieces ==
    {<<"a", "i">>, <<"M", "l">>, <<"t", "h", "e">>, <<"U+C774", "U+B2E4">>,
     <<"4", "2">>, <<"a", "_", "b">>, <<"x">>, <<".">>}

KeywordTexts == {TextOf(ps) : ps \in SeqsUpTo(KeywordPieces, MaxKeywordPieces)}

Langs == {"ko", "en", "fr"}

SummaryPieces == {<<"a", "i">>, <<"m", "l">>, <<".">>, <<"\n">>}

SummaryTexts == {TextOf(ps) : ps \in SeqsUpTo(SummaryPieces, MaxSummaryPieces)}

SummaryTypes == {"keywords", "sentences", "mixed"}

(***************************************************************************)
(* SpecKeywords: extract_keywords applied to a text                        *)
(***************************************************************************)
MainIdle ==
    /\ file_index = 0
    /\ success_count = 0
    /\ outcomes = <<>>
    /\ exit_code = "running"

InitKeywords ==
    /\ pc = "input"
    /\ \E text \in KeywordTexts : args = [text |-> text]
    /\ result = <<>>
    /\ MainIdle

ExtractKeywords ==
    /\ pc = "input"
    /\ \E lang \in Langs, top_k \in 0..MaxTopK :
          /\ args' = [text |-> args.text, lang |-> lang, top_k |-> top_k]
          /\ result' = extract_keywords(args.text, lang, top_k)
    /\ pc' = "extract_keywords"
    /\ UNCHANGED <<file_index, success_count, outcomes, exit_code>>

NextKeywords == ExtractKeywords

SpecKeywords == InitKeywords /\ [][NextKeywords]_vars

(***************************************************************************)
(* SpecSummary: every stage of the engine applied to a text                *)
(***************************************************************************)
InitSummary ==
    /\ pc = "input"
    /\ \E text \in SummaryTexts : args = [text |-> text]
    /\ result = <<>>
    /\ MainIdle

SplitSentences ==
    /\ pc = "input"
    /\ args' = args
    /\ result' = [raised |-> "none", value |-> split_sentences(args.text)]
    /\ pc' = "split_sentences"
    /\ UNCHANGED <<file_index, success_count, outcomes, exit_code>>

ExtractKeywordsDefault ==
    /\ pc = "input"
    /\ args' = [text |-> args.text, lang |-> "ko", top_k |-> 50]
    /\ result' = [raised |-> "none", value |-> extract_keywords(args.text, "ko", 50)]
    /\ pc' = "extract_keywords"
    /\ UNCHANGED <<file_index, success_count, outcomes, exit_code>>

CreateSentenceSummary ==
    /\ pc = "input"
    /\ \E num_sentences \in 0..MaxNumSentences :
          /\ args' = [text |-> args.text, num_sentences |-> num_sentences]
          /\ result' = [raised |-> "none",
                        selected |-> summary_sentences(args.text, num_sentences),
                        value |-> create_sentence_summary(args.text, num_sentences)]
    /\ pc' = "create_sentence_summary"
    /\ UNCHANGED <<file_index, success_count, outcomes, exit_code>>

GenerateComprehensiveSummary ==
    /\ pc = "input"
    /\ \E summary_type \in SummaryTypes :
          /\ args' = [text |-> args.text, summary_type |-> summary_type]
          /\ result' = generate_comprehensive_summary(args.text, summary_type)
    /\ pc' = "generate_comprehensive_summary"
    /\ UNCHANGED <<file_index, success_count, outcomes, exit_code>>

NextSummary ==
    \/ SplitSentences
    \/ ExtractKeywordsDefault
    \/ CreateSentenceSummary
    \/ GenerateComprehensiveSummary

SpecSummary == InitSummary /\ [][NextSummary]_vars

(***************************************************************************)
(* SpecChunk: chunk_text applied to a text                                 *)
(***************************************************************************)
MaxChunkPieces == 5
MaxChunkSize == 3
MaxMinChunkSize == 3

ChunkPieces == {<<"a">>, <<"b", "b">>, <<".", " ">>, <<"\n", "\n">>}

ChunkInputs == {Join(<<>>, ps) : ps \in SeqsUpTo(ChunkPieces, MaxChunkPieces)}

InitChunk ==
    /\ pc = "input"
    /\ \E text \in ChunkInputs : args = [text |-> text]
    /\ result = <<>>
    /\ MainIdle

ChunkText ==
    /\ pc = "input"
    /\ \E max_chunk_size \in 1..MaxChunkSize, min_chunk_size \in 0..MaxMinChunkSize :
          /\ args' = [text |-> args.text, max_chunk_size |-> max_chunk_size,
                      min_chunk_size |-> min_chunk_size]
          /\ result' = ChunkTextUnits(args.text, max_chunk_size, min_chunk_size)
    /\ pc' = "chunk_text"
    /\ UNCHANGED <<file_index, success_count, outcomes, exit_code>>

NextChunk == ChunkText

SpecChunk == InitChunk /\ [][NextChunk]_vars

(***************************************************************************)
(* Spec: the batch driver main() over the note files                       *)
(***************************************************************************)
MaxFiles == 2
MaxChunks == 2

DigitSeq == <<"0", "1", "2", "3", "4", "5", "6", "7", "8", "9">>

\* the words k00, k01, ...
NumberedWord(i) == <<"k", DigitSeq[(i \div 10) + 1], DigitSeq[(i % 10) + 1]>>

\* one sentence of 51 different words: one keyword more than the 50 that
\* process_single_file and generate_comprehensive_summary keep
ManyWords == TextOf([i \in 1..51 |-> NumberedWord(i - 1)])

\* the texts the loop of process_single_file may meet as a chunk
ChunkTexts ==
    {TextOf(<<<<"t", "h", "e">>, <<"a", "i">>, <<"m", "l">>, <<".">>,
              <<"U+C774", "U+B2E4">>, <<"a", "i">>>>),
     TextOf(<<<<"x">>, <<".">>, <<"4", "2">>>>),
     TextOf(<<<<"t", "h", "e">>, <<"a", "i">>, <<"m", "l">>,
              <<"U+C774", "U+B2E4">>, <<"a", "i">>>>),
     TextOf(<<<<"m", "l">>, <<"m", "l">>, <<"a", "i">>>>),
     TextOf(<<<<"x">>, <<"4", "2">>>>),
     ManyWords}

\* the chunks chunk_text makes of a preprocessed text: the text is one
\* paragraph, which is cut at its sentence ends, and the chunks are its
\* sentences joined by spaces
JoinedSentences ==
    {chunk \in ChunkTexts :
        \A i \in 1..Len(chunk) : chunk[i] \notin SentenceEnd \cup {"\n"}}

\* --type, --lang, --max-keywords
Configs ==
    [type : SummaryTypes, lang : {"ko", "en"}, max_keywords : {2, 50, 51}]

\* a note file as process_single_file meets it: reading it raises, or it has
\* no text, or it has text, which is one chunk or was cut into several
FileContents ==
    {[status |-> "error"], [status |-> "empty"]}
    \cup {[status |-> "text", chunks |-> <<text>>] : text \in ChunkTexts}
    \cup {[status |-> "text", chunks |-> chunks] :
             chunks \in {cs \in SeqsUpTo(JoinedSentences, MaxChunks) : Len(cs) >= 2}}

\* the engine's answers for the chunks, computed once per chunk
ChunkKeywords ==
    Tabulated([chunk \in ChunkTexts |->
                  [lang \in {"ko", "en"} |->
                      [max_keywords \in {2, 50, 51} |->
                          extract_keywords(chunk, lang, max_keywords)]]])

ChunkSummary ==
    Tabulated([chunk \in ChunkTexts |->
                  [summary_type \in SummaryTypes |->
                      generate_comprehensive_summary(chunk, summary_type)]])

\* the loop over the chunks of process_single_file
RECURSIVE ProcessChunks(_, _, _)
ProcessChunks(acc, chunks, config) ==
    IF chunks = <<>> THEN acc
    ELSE ProcessChunks(
             ProcessChunk(acc,
                          ChunkKeywords[Head(chunks)][config.lang][config.max_keywords],
                          ChunkSummary[Head(chunks)][config.type]),
             Tail(chunks), config)

\* process_single_file(file_path, args, ...): what it returns or raises, and
\* the values it computed on the way
process_single_file(file, config) ==
    IF file.status = "error"
    THEN [raised |-> "OSError", returned |-> "nothing"]
    ELSE IF file.status = "empty"
    THEN [raised |-> "none", returned |-> "None"]
    ELSE Bind(ProcessChunks([all_keywords |-> <<>>, all_summaries |-> <<>>,
                             raised |-> "none"], file.chunks, config),
              LAMBDA loop :
                 IF loop.raised # "none"
                 THEN [raised |-> loop.raised, returned |-> "nothing"]
                 ELSE IF loop.all_summaries = <<>>
                 THEN [raised |-> "none", returned |-> "None",
                       all_keywords |-> loop.all_keywords,
                       all_summaries |-> loop.all_summaries]
                 ELSE FinishFile(loop.all_keywords, loop.all_summaries, config.type))

\* process_single_file(file_path, args, processor, engine, summaries_dir) for
\* every file and configuration main may call it with, computed once
Processed ==
    Tabulated([file \in FileContents |->
                  [config \in Configs |-> process_single_file(file, config)]])

\* the body of the loop without its try / except: an exception ends main
AfterFile_without_try(processed, count) ==
    IF processed.raised # "none"
    THEN [pc |-> "done", success_count |-> count, outcome |-> "raised",
          exit_code |-> 1]
    ELSE IF processed.returned = "output_path"
    THEN [pc |-> "loop", success_count |-> count + 1, outcome |-> "success",
          exit_code |-> "running"]
    ELSE [pc |-> "loop", success_count |-> count, outcome |-> "failed",
          exit_code |-> "running"]

\* the body of the loop of main for one file: try / except Exception / continue
AfterFile(processed, count) ==
    IF processed.raised # "none"
    THEN [pc |-> "loop", success_count |-> count, outcome |-> "raised",
          exit_code |-> "running"]
    ELSE IF processed.returned = "output_path"
    THEN [pc |-> "loop", success_count |-> count + 1, outcome |-> "success",
          exit_code |-> "running"]
    ELSE [pc |-> "loop", success_count |-> count, outcome |-> "failed",
          exit_code |-> "running"]

Init ==
    /\ pc = "start"
    /\ \E config \in Configs, notes_exists \in BOOLEAN, note_files \in 0..MaxFiles :
          /\ notes_exists \/ note_files = 0
          /\ args = [config |-> config, notes_exists |-> notes_exists,
                     note_files |-> note_files]
    /\ result = <<>>
    /\ file_index = 0
    /\ success_count = 0
    /\ outcomes = <<>>
    /\ exit_code = "running"

\* main: the notes directory does not exist
MissingNotesDirectory ==
    /\ pc = "start"
    /\ ~args.notes_exists
    /\ pc' = "done"
    /\ exit_code' = 1
    /\ UNCHANGED <<args, result, file_index, success_count, outcomes>>

\* main: the scan found no file
EmptyScan ==
    /\ pc = "start"
    /\ args.notes_exists
    /\ args.note_files = 0
    /\ pc' = "done"
    /\ exit_code' = 1
    /\ UNCHANGED <<args, result, file_index, success_count, outcomes>>

BeginLoop ==
    /\ pc = "start"
    /\ args.notes_exists
    /\ args.note_files > 0
    /\ pc' = "loop"
    /\ UNCHANGED <<args, result, file_index, success_count, outcomes, exit_code>>

\* main: one turn of "for file_path in note_files"
ProcessFile ==
    /\ pc = "loop"
    /\ file_index < args.note_files
    /\ \E file \in FileContents :
          /\ result' = [file |-> file, index |-> file_index + 1,
                        processed |-> Processed[file][args.config]]
          /\ pc' = AfterFile(result'.processed, success_count).pc
          /\ success_count' = AfterFile(result'.processed, success_count).success_count
          /\ exit_code' = AfterFile(result'.processed, success_count).exit_code
          /\ outcomes' = Append(outcomes,
                             [index |-> file_index + 1,
                              outcome |-> AfterFile(result'.processed, success_count).outcome])
    /\ file_index' = file_index + 1
    /\ UNCHANGED args

\* main: after the loop
Finish ==
    /\ pc = "loop"
    /\ file_index = args.note_files
    /\ pc' = "done"
    /\ exit_code' = IF success_count = 0 THEN 1 ELSE 0
    /\ UNCHANGED <<args, result, file_index, success_count, outcomes>>

Next ==
    \/ MissingNotesDirectory
    \/ EmptyScan
    \/ BeginLoop
    \/ ProcessFile
    \/ Finish

Spec == Init /\ [][Next]_vars
(***************************************************************************)
(* SpecTopic: create_topic_summary applied to a keyword list               *)
(***************************************************************************)
MaxPaletteLen == 2
MaxTopicKeywords == 21

\* stems of keywords: one with a marker of each topic, one without a marker,
\* two with markers of two topics, one with capital letters
TopicStems ==
    {<<"U+C815", "U+C758">>,
     <<"U+C131", "U+B2A5">>,
     <<"U+D65C", "U+C6A9">>,
     <<"U+AE30", "U+BC95">>,
     <<"a", "i">>,
     <<"U+C131", "U+B2A5", "U+C758", "U+BBF8">>,
     <<"U+AE30", "U+C220", "U+C0AC", "U+C6A9">>,
     <<"A", "M", "U+C774", "U+D574">>}

\* n different keywords with falling scores, the stems taken in turn
KeywordsFrom(palette, n) ==
    [i \in 1..n |->
        <<palette[((i - 1) % Len(palette)) + 1]
             \o <<DigitSeq[(i \div 10) + 1], DigitSeq[(i % 10) + 1]>>,
          100 - i>>]

InitTopic ==
    /\ pc = "input"
    /\ \E palette \in SeqsUpTo(TopicStems, MaxPaletteLen) \ {<<>>} :
          args = [palette |-> palette]
    /\ result = <<>>
    /\ MainIdle

CreateTopicSummary ==
    /\ pc = "input"
    /\ \E n \in 0..MaxTopicKeywords :
          /\ args' = [keywords |-> KeywordsFrom(args.palette, n)]
          /\ result' = [topics |-> topics(args'.keywords),
                        value |-> create_topic_summary(<<>>, args'.keywords)]
    /\ pc' = "create_topic_summary"
    /\ UNCHANGED <<file_index, success_count, outcomes, exit_code>>

NextTopic == CreateTopicSummary

SpecTopic == InitTopic /\ [][NextTopic]_vars

(***************************************************************************)
(* SpecDocument: a text that was read is preprocessed and cut into chunks  *)
(***************************************************************************)
MaxRawPieces == 4

RawPieces == {<<"a">>, <<"b", "?">>, <<".", " ">>, <<"\n">>, <<"#">>}

RawTexts == {Join(<<>>, ps) : ps \in SeqsUpTo(RawPieces, MaxRawPieces)}

InitDocument ==
    /\ pc = "input"
    /\ \E raw \in RawTexts : args = [raw |-> raw]
    /\ result = <<>>
    /\ MainIdle

PreprocessAndChunk ==
    /\ pc = "input"
    /\ \E chunk_size \in 1..MaxChunkSize, min_chunk_size \in 0..MaxMinChunkSize :
          /\ args' = [raw |-> args.raw, chunk_size |-> chunk_size,
                      min_chunk_size |-> min_chunk_size]
          /\ result' = document_chunks(args.raw, chunk_size, min_chunk_size)
    /\ pc' = "chunks"
    /\ UNCHANGED <<file_index, success_count, outcomes, exit_code>>

NextDocument == PreprocessAndChunk

SpecDocument == InitDocument /\ [][NextDocument]_vars

(***************************************************************************)
(* Properties of extract_keywords, checked under SpecKeywords              *)
(***************************************************************************)
Position(seq, x) == CHOOSE i \in 1..Len(seq) : seq[i] = x

IsSubsequence(sub, seq) ==
    \E f \in [1..Len(sub) -> 1..Len(seq)] :
        /\ \A i \in 1..Len(sub) : seq[f[i]] = sub[i]
        /\ \A i, j \in 1..Len(sub) : i < j => f[i] < f[j]

\* C1: the sentences create_sentence_summary joins are in the order they have
\* in split_sentences(text)
C1_OriginalOrder ==
    pc = "create_sentence_summary" =>
        IsSubsequence(result.selected, split_sentences(args.text))

\* C5: on the empty text no stage of the engine raises
C5_EmptyTextNeverRaises ==
    (pc # "input" /\ args.text = <<>>) => result.raised = "none"

(***************************************************************************)
(* Properties of chunk_text, checked under SpecChunk                       *)
(***************************************************************************)
\* C4: for a text longer than max_chunk_size, a chunk is longer than
\* max_chunk_size only if it is made of a single unit
C4_ChunksWithinMax ==
    (pc = "chunk_text" /\ Len(args.text) > args.max_chunk_size) =>
        \A i \in 1..Len(result) :
            \/ Len(result[i].text) <= args.max_chunk_size
            \/ result[i].units = 1

(***************************************************************************)
(* Properties of process_single_file and main, checked under Spec          *)
(***************************************************************************)
\* the last file was read and had at least one chunk with keywords
FileFinished ==
    /\ result # <<>>
    /\ "final_summary" \in DOMAIN result.processed

\* the keyword lists the loop of process_single_file got for the chunks
ChunkKeywordLists ==
    [i \in 1..Len(result.file.chunks) |->
        ChunkKeywords[result.file.chunks[i]][args.config.lang][args.config.max_keywords]]

NoTermTwice(pairs) ==
    \A i, j \in 1..Len(pairs) : pairs[i][1] = pairs[j][1] => i = j

NonIncreasing(pairs) ==
    \A i, j \in 1..Len(pairs) : i < j => pairs[i][2] >= pairs[j][2]

\* every pair carries the score of the last pair of source with its term
LastScores(pairs, source) ==
    \A i \in 1..Len(pairs) :
        /\ \E k \in 1..Len(source) : source[k][1] = pairs[i][1]
        /\ pairs[i][2] = source[Max({k \in 1..Len(source) :
                                        source[k][1] = pairs[i][1]})][2]

\* C2: the keywords of the final record of process_single_file, and those of
\* the record merge_summaries builds for the keywords and mixed types,
\* contain no term twice, are in non-increasing score order, and carry for
\* every term the score of the last chunk it occurs in.
C2_FinalKeywordsUniqueSortedLastScore ==
    FileFinished =>
        /\ NoTermTwice(result.processed.final_summary[1].keywords)
        /\ NonIncreasing(result.processed.final_summary[1].keywords)
        /\ LastScores(result.processed.final_summary[1].keywords,
                      result.processed.all_keywords)
        /\ (result.processed.merged # <<>> /\ args.config.type \in {"keywords", "mixed"}) =>
              /\ NoTermTwice(result.processed.merged[1].keywords)
              /\ NonIncreasing(result.processed.merged[1].keywords)
              /\ LastScores(result.processed.merged[1].keywords,
                            SummaryKeywords(result.processed.all_summaries))

\* a term of two chunks whose last score is lower than its first one, in a
\* final list of several keywords
C2_Witness ==
    /\ FileFinished
    /\ result.processed.merged # <<>>
    /\ args.config.type = "mixed"
    /\ Len(result.processed.final_summary[1].keywords) >= 2
    /\ \E i, j \in 1..Len(result.processed.all_keywords) :
          /\ i < j
          /\ result.processed.all_keywords[i][1] = result.processed.all_keywords[j][1]
          /\ result.processed.all_keywords[i][2] > result.processed.all_keywords[j][2]

\* C3: a record merged from several mixed records has the topic_summary and
\* the statistics of the first of them
C3_MergedMixedKeepsFirstChunkFields ==
    (FileFinished /\ result.processed.merged # <<>> /\ args.config.type = "mixed") =>
        /\ "topic_summary" \in DOMAIN result.processed.merged[1]
        /\ "statistics" \in DOMAIN result.processed.merged[1]
        /\ result.processed.merged[1].topic_summary
              = result.processed.all_summaries[1].topic_summary
        /\ result.processed.merged[1].statistics
              = result.processed.all_summaries[1].statistics

\* C6: main attempts every file of the scan once and in scan order whatever
\* the earlier files did, and it exits non-zero exactly when the notes
\* directory is missing, the scan is empty or no file succeeded.
C6_EveryFileAttemptedOnce ==
    /\ Len(outcomes) = file_index
    /\ \A i \in 1..Len(outcomes) : outcomes[i].index = i
    /\ success_count = Cardinality({i \in 1..Len(outcomes) : outcomes[i].outcome = "success"})
    /\ pc # "done" => exit_code = "running"
    /\ pc = "done" =>
          /\ (args.notes_exists /\ args.note_files > 0) => Len(outcomes) = args.note_files
          /\ exit_code \in {0, 1}
          /\ exit_code = 1 <=>
                \/ ~args.notes_exists
                \/ args.note_files = 0
                \/ \A i \in 1..Len(outcomes) : outcomes[i].outcome # "success"

\* main has exited with 0 after a file that raised and a later one that
\* succeeded
C6_Witness ==
    /\ pc = "done"
    /\ exit_code = 0
    /\ \E i, j \in 1..Len(outcomes) :
          /\ i < j
          /\ outcomes[i].outcome = "raised"
          /\ outcomes[j].outcome = "success"

\* the chunks of the last file for which extract_keywords returned keywords
ChunksWithKeywords ==
    SelectSeq(result.file.chunks,
              LAMBDA chunk :
                 ChunkKeywords[chunk][args.config.lang][args.config.max_keywords] # <<>>)

RECURSIVE Concat(_)
Concat(lists) == IF lists = <<>> THEN <<>> ELSE Head(lists) \o Concat(Tail(lists))

\* C7: a chunk without keywords adds nothing to all_keywords and all_summaries,
\* the chunks after it are processed, and a file all of whose chunks are
\* without keywords is not written and returns None, which main counts as a
\* failure.
C7_ChunksWithoutKeywordsSkipped ==
    (result # <<>> /\ "all_keywords" \in DOMAIN result.processed) =>
        /\ result.processed.all_keywords
              = Concat([i \in 1..Len(ChunksWithKeywords) |->
                    ChunkKeywords[ChunksWithKeywords[i]][args.config.lang][args.config.max_keywords]])
        /\ result.processed.all_summaries
              = [i \in 1..Len(ChunksWithKeywords) |->
                    ChunkSummary[ChunksWithKeywords[i]][args.config.type].value]
        /\ ChunksWithKeywords = <<>> =>
              /\ result.processed.returned = "None"
              /\ "written" \notin DOMAIN result.processed
              /\ outcomes[Len(outcomes)].outcome = "failed"

\* a file whose first chunk has no keywords and whose second chunk has
C7_Witness ==
    /\ result # <<>>
    /\ "all_keywords" \in DOMAIN result.processed
    /\ Len(result.file.chunks) = 2
    /\ ChunkKeywordLists[1] = <<>>
    /\ Len(result.processed.all_summaries) = 1
    /\ result.processed.all_keywords = ChunkKeywordLists[2]

\* C9: the final keyword list of a file has at most as many keywords as its
\* chunks' lists together and at least as many as the chunk with the most
\* different terms, whatever --max-keywords is.
C9_MergedKeywordCountBounds ==
    FileFinished =>
        /\ Len(result.processed.final_summary[1].keywords)
              <= SumSeq([i \in 1..Len(ChunkKeywordLists) |-> Len(ChunkKeywordLists[i])])
        /\ \A i \in 1..Len(ChunkKeywordLists) :
              Len(result.processed.final_summary[1].keywords)
                 >= Cardinality(Range(Terms(ChunkKeywordLists[i])))

(***************************************************************************)
(* Properties of create_topic_summary, checked under SpecTopic             *)
(***************************************************************************)
\* the topics one of whose marker words is in the keyword, letter case apart
MatchingTopics(keyword) ==
    {k \in 1..4 : \E word \in Topics[k].markers :
        \E i \in 1..Len(keyword) :
            /\ i + Len(word) - 1 <= Len(keyword)
            /\ \A j \in 1..Len(word) : LowerChar(keyword[i + j - 1]) = word[j]}

\* the rendered text is the lines of the topics that have keywords, in the
\* order of Topics, each with its first five keywords
RenderedTopics(lists) ==
    Join(<<"\n", "\n">>,
         [i \in 1..Cardinality({k \in 1..5 : lists[k] # <<>>}) |->
            LET k == CHOOSE k \in 1..5 :
                        /\ lists[k] # <<>>
                        /\ Cardinality({h \in 1..(k - 1) : lists[h] # <<>>}) = i - 1
            IN  <<"*", "*">> \o Topics[k].name \o <<"*", "*", ":", " ">>
                  \o Join(<<",", " ">>, SubSeq(lists[k], 1, Min({5, Len(lists[k])})))])

\* C11: create_topic_summary puts each of the first 20 keywords, and no
\* other, into exactly one topic: the first topic of the fixed order that
\* has a marker word in the keyword, or the last topic when none has; the
\* keywords of a topic keep their order, a topic is rendered with at most
\* five keywords and a topic without keywords is not rendered.
C11_TopicsByFirstMarker ==
    pc = "create_topic_summary" =>
        /\ \A k \in 1..5 : \A i \in 1..Len(result.topics[k]) :
              /\ \E j \in 1..Min({20, Len(args.keywords)}) :
                    args.keywords[j][1] = result.topics[k][i]
              /\ k = Min(MatchingTopics(result.topics[k][i]) \cup {5})
        /\ \A j \in 1..Min({20, Len(args.keywords)}) :
              Cardinality({<<k, i>> \in (1..5) \X (1..20) :
                              /\ i <= Len(result.topics[k])
                              /\ result.topics[k][i] = args.keywords[j][1]}) = 1
        /\ \A k \in 1..5 : \A i, j \in 1..Len(result.topics[k]) :
              i < j => Position(Terms(args.keywords), result.topics[k][i])
                          < Position(Terms(args.keywords), result.topics[k][j])
        /\ result.value = RenderedTopics(result.topics)

\* 21 keywords, some with markers of two topics: the 21st is left out, one
\* topic has more than five keywords and one has none
C11_Witness ==
    /\ pc = "create_topic_summary"
    /\ Len(args.keywords) = 21
    /\ \E j \in 1..20 : Cardinality(MatchingTopics(args.keywords[j][1])) = 2
    /\ \E k \in 1..5 : Len(result.topics[k]) > 5
    /\ \E k \in 1..5 : result.topics[k] = <<>>
    /\ \A k \in 1..5 : args.keywords[21][1] \notin Range(result.topics[k])

\* C12: a file of two or more chunks that all have keywords is written: the
\* record merge_summaries returns has every field write_summary_file reads
\* for its type, and process_single_file returns the output path.
C12_MultiChunkFileWritten ==
    (/\ FileFinished
     /\ Len(result.file.chunks) >= 2
     /\ \A i \in 1..Len(ChunkKeywordLists) : ChunkKeywordLists[i] # <<>>) =>
        /\ result.processed.merged # <<>>
        /\ Range(FieldsRead(result.processed.merged[1]))
              \subseteq DOMAIN result.processed.merged[1]
        /\ result.processed.raised = "none"
        /\ result.processed.returned = "output_path"

(***************************************************************************)
(* Properties of preprocessing and chunking, checked under SpecDocument    *)
(***************************************************************************)
\* C13: for a preprocessed text longer than the chunk size, the sentences of
\* the chunks, in chunk order, are the sentences of the text
C13_ChunkingPreservesSentences ==
    (pc = "chunks" /\ Len(result.text) > args.chunk_size) =>
        Concat([i \in 1..Len(result.chunks) |-> split_sentences(result.chunks[i])])
           = split_sentences(result.text)

\* the terms listed in a keyword summary: its words other than the labels
ListedTerms(summary) == Range(FindWords(summary))

\* C14: no term of the final record's keywords, of its core_concepts or of its
\* keyword summary (content for the keywords type, keyword_summary for the
\* mixed type) is a stopword of the configured language, and core_concepts
\* is the list of the first terms of the final keywords.
C14_LanguageGovernsKeywordFields ==
    FileFinished =>
        LET final == result.processed.final_summary[1]
            stop == stopwords(args.config.lang)
        IN  /\ Range(Terms(final.keywords)) \cap stop = {}
            /\ "core_concepts" \in DOMAIN final =>
                  /\ Range(final.core_concepts) \cap stop = {}
                  /\ Len(final.core_concepts) <= Len(final.keywords)
                  /\ final.core_concepts
                        = Terms(SubSeq(final.keywords, 1, Len(final.core_concepts)))
            /\ final.type = "keywords" => ListedTerms(final.content) \cap stop = {}
            /\ final.type = "mixed" => ListedTerms(final.keyword_summary) \cap stop = {}

====
